---- MODULE Spec2Model ----
(***************************************************************************)
(* A model of moztelemetry/histogram.py: the memoized schema fetch, the    *)
(* Histogram constructor (dense and sparse inputs), get_value, percentile  *)
(* and __add__.                                                            *)
(*                                                                         *)
(* Numbers.  The program computes with numpy float64 values.  A number is  *)
(* modelled as a pair <<n, d>>: a normalised fraction n/d with d > 0, or   *)
(* <<0, 0>> for not-a-number, <<1, 0>> for +infinity, <<-1, 0>> for        *)
(* -infinity.  Arithmetic is exact (no rounding), and follows the IEEE     *)
(* rules for the three special values: 0/0 is not-a-number, x/0 is an      *)
(* infinity, every comparison with not-a-number is false.                  *)
(***************************************************************************)
EXTENDS Integers, Sequences, FiniteSets, TLC

(***************************************************************************)
(* Bounds of the model.                                                    *)
(***************************************************************************)
\* the counts of an input are drawn from 0..MaxCount
MaxCount == 1
\* __add__ is explored while every finite count of the result is <= MaxTotal
MaxTotal == 2
\* a sparse input has at most MaxEntries entries
MaxEntries == 2

(***************************************************************************)
(* Constants of the program.                                               *)
(***************************************************************************)
\* instance[:-5]: the number of trailing values dropped from a dense input
TrailingFields == 5
\* @lru_cache(maxsize=512)
CacheMaxSize == 512
\* fraction = percentile/100, and the upper limit of the percentile argument
Hundred == 100
\* get_value: self.percentile(50)
MedianPercentile == 50

(***************************************************************************)
(* Numbers.                                                                *)
(***************************************************************************)
Abs(x) == IF x < 0 THEN -x ELSE x

Sign(x) == IF x < 0 THEN -1 ELSE IF x > 0 THEN 1 ELSE 0

RECURSIVE GCD(_, _)
GCD(x, y) == IF y = 0 THEN x ELSE GCD(y, x % y)

Norm(n, d) ==
    IF d = 0 THEN <<Sign(n), 0>>
    ELSE LET g == GCD(Abs(n), Abs(d))
             s == Sign(d)
         IN  <<(s * n) \div g, (s * d) \div g>>

NaN == <<0, 0>>

Num(i) == <<i, 1>>

IsNaN(x) == x = NaN

IsFinite(x) == x[2] # 0

\* float addition
FAdd(x, y) ==
    IF IsNaN(x) \/ IsNaN(y) THEN NaN
    ELSE IF ~IsFinite(x) /\ ~IsFinite(y) THEN (IF x = y THEN x ELSE NaN)
    ELSE IF ~IsFinite(x) THEN x
    ELSE IF ~IsFinite(y) THEN y
    ELSE Norm(x[1] * y[2] + y[1] * x[2], x[2] * y[2])

FNeg(x) == <<-x[1], x[2]>>

\* float subtraction
FSub(x, y) == FAdd(x, FNeg(y))

\* float multiplication (0 * infinity is not-a-number)
FMul(x, y) == Norm(x[1] * y[1], x[2] * y[2])

\* float true division (from __future__ import division; numpy semantics:
\* 0/0 is not-a-number, x/0 is an infinity, no exception is raised)
FDiv(x, y) ==
    IF IsNaN(x) \/ IsNaN(y) THEN NaN
    ELSE IF ~IsFinite(y) THEN (IF IsFinite(x) THEN Num(0) ELSE NaN)
    ELSE IF ~IsFinite(x) THEN (IF y[1] < 0 THEN FNeg(x) ELSE x)
    ELSE Norm(x[1] * y[2], x[2] * y[1])

\* x <= y on floats: false when either side is not-a-number
FLe(x, y) ==
    IF IsNaN(x) \/ IsNaN(y) THEN FALSE
    ELSE IF IsFinite(x) /\ IsFinite(y) THEN x[1] * y[2] <= y[1] * x[2]
    ELSE x = <<-1, 0>> \/ y = <<1, 0>>

\* x == y on floats: false when either side is not-a-number
FEq(x, y) == ~IsNaN(x) /\ ~IsNaN(y) /\ x = y

(***************************************************************************)
(* Sequence helpers.                                                       *)
(***************************************************************************)
Range(s) == {s[i] : i \in DOMAIN s}

\* the position of label k in index idx, 0 when it is not a label of idx
RECURSIVE PosFrom(_, _, _)
PosFrom(idx, k, i) ==
    IF i > Len(idx) THEN 0
    ELSE IF idx[i] = k THEN i
    ELSE PosFrom(idx, k, i + 1)

Pos(idx, k) == PosFrom(idx, k, 1)

\* the elements of a finite set of integers in ascending order
RECURSIVE SortedSeq(_)
SortedSeq(S) ==
    IF S = {} THEN <<>>
    ELSE LET m == CHOOSE x \in S : \A y \in S : x <= y
         IN  <<m>> \o SortedSeq(S \ {m})

(***************************************************************************)
(* The schema documents served for the two revisions the program names.    *)
(* A revision and a histogram name are sequences of the tokens that the    *)
(* program's string operations tell apart.  A schema entry is given by     *)
(* what histogram_tools.Histogram reports for it: kind() and ranges(); its *)
(* n_buckets() is the length of ranges().  ranges() always starts at 0 and *)
(* is strictly increasing.                                                 *)
(***************************************************************************)
TipRevision == <<"https://hg.mozilla.org/mozilla-central", "rev", "tip">>

OldRevision == <<"https://hg.mozilla.org/mozilla-central", "rev", "37ddc5e2eb72">>

Revisions == {TipRevision, OldRevision}

HistogramsJsonPath == "toolkit/components/telemetry/Histograms.json"

TipDocument ==
    (<<"A">> :> [kind |-> "exponential", ranges |-> <<0, 1, 3>>])
    @@ (<<"C">> :> [kind |-> "count", ranges |-> <<0, 1, 2>>])
    @@ (<<"F">> :> [kind |-> "flag", ranges |-> <<0, 1, 2>>])

OldDocument ==
    (<<"A">> :> [kind |-> "linear", ranges |-> <<0, 1, 2>>])
    @@ (<<"C">> :> [kind |-> "count", ranges |-> <<0, 1, 2>>])
    @@ (<<"F">> :> [kind |-> "flag", ranges |-> <<0, 1, 2>>])

EmptyDocument == [n \in {} |-> [kind |-> "", ranges |-> <<>>]]

\* requests.get(uri).json()
HttpGetJson(uri) ==
    IF uri = <<"https://hg.mozilla.org/mozilla-central", "raw-file", "tip",
               HistogramsJsonPath>>
    THEN TipDocument
    ELSE IF uri = <<"https://hg.mozilla.org/mozilla-central", "raw-file",
                    "37ddc5e2eb72", HistogramsJsonPath>>
    THEN OldDocument
    ELSE EmptyDocument

\* (revision + "/toolkit/.../Histograms.json").replace("rev", "raw-file")
DefinitionUri(revision) ==
    LET joined == revision \o <<HistogramsJsonPath>>
    IN  [i \in DOMAIN joined |-> IF joined[i] = "rev" THEN "raw-file" ELSE joined[i]]

\* the function wrapped by lru_cache
FetchUncached(revision) == HttpGetJson(DefinitionUri(revision))

\* a memo that keeps only the entry of the last call
FetchKeepingOne(c, revision) ==
    [cache |-> <<[key |-> revision, value |-> FetchUncached(revision)]>>,
     result |-> FetchUncached(revision)]

\* lru_cache(maxsize=512): the cache is the sequence of its entries, least
\* recently used first.  A hit moves the entry to the end; a miss calls the
\* function, appends the entry and evicts the head when the cache is full.
fetch_histograms_definition(c, revision) ==
    LET hit == {i \in DOMAIN c : c[i].key = revision}
    IN  IF hit # {}
        THEN LET i == CHOOSE j \in hit : TRUE
                 rest == SubSeq(c, 1, i - 1) \o SubSeq(c, i + 1, Len(c))
             IN  [cache |-> Append(rest, c[i]), result |-> c[i].value]
        ELSE LET e == [key |-> revision, value |-> FetchUncached(revision)]
                 full == Len(c) >= CacheMaxSize
             IN  [cache |-> Append(IF full THEN Tail(c) ELSE c, e),
                  result |-> e.value]

\* re.sub("^STARTUP_", "", name)
StripStartup(name) ==
    IF name # <<>> /\ Head(name) = "STARTUP_" THEN Tail(name) ELSE name

(***************************************************************************)
(* pandas.Series, as the program uses it: an index of labels and a value   *)
(* per label.                                                              *)
(***************************************************************************)
\* pd.Series(values, index=index) for a list or ndarray: positional.  When
\* the lengths differ the call raises ValueError, except that some pandas
\* versions repeat a single value over the whole index (broadcast).
SeriesFromList(values, index, broadcast) ==
    IF Len(values) = Len(index)
    THEN [ok |-> TRUE, s |-> [index |-> index, values |-> values]]
    ELSE IF Len(values) = 1 /\ broadcast
    THEN [ok |-> TRUE,
          s |-> [index |-> index, values |-> [i \in DOMAIN index |-> values[1]]]]
    ELSE [ok |-> FALSE, s |-> [index |-> <<>>, values |-> <<>>]]

\* the series passed through with its own labels
SeriesKeepLabels(s, index) == [index |-> s.index, values |-> s.values]

\* pd.Series(series, index=index): the series is re-indexed by label; a label
\* of index that the series does not have gets not-a-number.  Never raises.
SeriesReindex(s, index) ==
    [index |-> index,
     values |-> [i \in DOMAIN index |->
                    IF Pos(s.index, index[i]) = 0 THEN NaN
                    ELSE s.values[Pos(s.index, index[i])]]]

\* the entries looked up by bucket position instead of by label
SeriesFromDictByPosition(entries, index) ==
    [index |-> index,
     values |-> [i \in DOMAIN index |->
                    IF (i - 1) \in DOMAIN entries THEN entries[i - 1] ELSE NaN]]

\* pd.Series(entries, index=index) for a dict: looked up by label.
SeriesFromDict(entries, index) ==
    [index |-> index,
     values |-> [i \in DOMAIN index |->
                    IF index[i] \in DOMAIN entries THEN entries[index[i]] ELSE NaN]]

\* Series.fillna(v)
Fillna(s, v) ==
    [index |-> s.index,
     values |-> [i \in DOMAIN s.values |-> IF IsNaN(s.values[i]) THEN v ELSE s.values[i]]]

\* x[:-k] on a list, an ndarray or a Series
DropLast(seq, k) == IF Len(seq) > k THEN SubSeq(seq, 1, Len(seq) - k) ELSE <<>>

\* Series + Series: aligned on the labels; equal indexes are kept as they
\* are, otherwise the result has the sorted union of the labels and
\* not-a-number wherever one side lacks the label.
SeriesAdd(x, y) ==
    IF x.index = y.index
    THEN [index |-> x.index,
          values |-> [i \in DOMAIN x.values |-> FAdd(x.values[i], y.values[i])]]
    ELSE LET idx == SortedSeq(Range(x.index) \cup Range(y.index))
         IN  [index |-> idx,
              values |-> [i \in DOMAIN idx |->
                  IF Pos(x.index, idx[i]) = 0 \/ Pos(y.index, idx[i]) = 0 THEN NaN
                  ELSE FAdd(x.values[Pos(x.index, idx[i])],
                            y.values[Pos(y.index, idx[i])])]]

\* Series.sum(): not-a-number entries are skipped
RECURSIVE SumFrom(_, _)
SumFrom(vals, i) ==
    IF i > Len(vals) THEN Num(0)
    ELSE IF IsNaN(vals[i]) THEN SumFrom(vals, i + 1)
    ELSE FAdd(vals[i], SumFrom(vals, i + 1))

SeriesSum(s) == SumFrom(s.values, 1)

\* int(k) for a string of decimal digits, given as the sequence of its digits
RECURSIVE ParseInt(_)
ParseInt(digits) ==
    IF digits = <<>> THEN 0
    ELSE 10 * ParseInt(SubSeq(digits, 1, Len(digits) - 1)) + digits[Len(digits)]

\* {int(k): v for k, v in items}: a later item replaces an earlier one that
\* casts to the same integer
RECURSIVE DictOfItems(_)
DictOfItems(items) ==
    IF items = <<>> THEN [k \in {} |-> NaN]
    ELSE LET before == DictOfItems(SubSeq(items, 1, Len(items) - 1))
             last_item == items[Len(items)]
             key == ParseInt(last_item[1])
         IN  [k \in DOMAIN before \cup {key} |->
                 IF k = key THEN last_item[2] ELSE before[k]]

(***************************************************************************)
(* class Histogram.  An object is a record of its attributes; an input     *)
(* (the constructor's `instance`) is a record: type "list" (a list or an   *)
(* ndarray, with its values), "Series" (a pandas Series, with its index    *)
(* and values) or "dict" (a mapping whose "values" entry is given by its   *)
(* items, in iteration order, each a pair of a digit string and a count).  *)
(***************************************************************************)
NoSeries == [index |-> <<>>, values |-> <<>>]

NoObject ==
    [name |-> <<>>, definition |-> [kind |-> "", ranges |-> <<>>], kind |-> "",
     buckets |-> NoSeries]

ListInstance(values) ==
    [type |-> "list", values |-> values, index |-> <<>>, items |-> <<>>]

SeriesInstance(s) ==
    [type |-> "Series", values |-> s.values, index |-> s.index, items |-> <<>>]

DictInstance(items) ==
    [type |-> "dict", values |-> <<>>, index |-> <<>>, items |-> items]

NoInstance == [type |-> "", values |-> <<>>, index |-> <<>>, items |-> <<>>]

\* isinstance(instance, list) or isinstance(instance, np.ndarray) or
\* isinstance(instance, pd.Series)
IsDense(instance) == instance.type \in {"list", "Series"}

\* lines 37-40: the values of a dense input that go into the buckets
DenseValues(instance, n_buckets) ==
    IF Len(instance.values) = n_buckets
    THEN instance
    ELSE [instance EXCEPT !.values = DropLast(instance.values, TrailingFields),
                          !.index = DropLast(instance.index, TrailingFields)]

\* line 41: pd.Series(values, index=self.definition.ranges())
DenseBuckets(values, ranges, broadcast) ==
    IF values.type = "Series"
    THEN [ok |-> TRUE, s |-> SeriesReindex(values, ranges)]
    ELSE SeriesFromList(values.values, ranges, broadcast)

\* lines 43-44: the buckets of a sparse input
SparseBuckets(instance, ranges) ==
    LET entries == DictOfItems(instance.items)
    IN  Fillna(SeriesFromDict(entries, ranges), Num(0))

\* lines 36-44: the buckets built for the definition, and whether pd.Series
\* accepted the values
BuildBuckets(definition, instance, broadcast) ==
    IF IsDense(instance)
    THEN DenseBuckets(DenseValues(instance, Len(definition.ranges)),
                      definition.ranges, broadcast)
    ELSE [ok |-> TRUE, s |-> SparseBuckets(instance, definition.ranges)]

\* lines 32-44, with the schema document fetched
InitWith(fetched, broadcast, name, instance) ==
    IF StripStartup(name) \notin DOMAIN fetched.result
    THEN [exc |-> "KeyError", self |-> NoObject, cache |-> fetched.cache]
    ELSE \* self.definition = histogram_tools.Histogram(name, ...)
         LET definition == fetched.result[StripStartup(name)]
         IN  CHOOSE out \in
                 {IF built.ok
                  THEN [exc |-> "none",
                        self |-> [name |-> name, definition |-> definition,
                                  kind |-> definition.kind, buckets |-> built.s],
                        cache |-> fetched.cache]
                  ELSE [exc |-> "ValueError", self |-> NoObject,
                        cache |-> fetched.cache] :
                  built \in {BuildBuckets(definition, instance, broadcast)}} : TRUE

\* Histogram.__init__(self, name, instance, revision), called with the
\* cache c of _fetch_histograms_definition: the exception raised ("none" for
\* a normal return), the object built and the cache afterwards.
HistogramInit(c, broadcast, name, instance, revision) ==
    CHOOSE out \in
        {InitWith(fetched, broadcast, name, instance) :
            fetched \in {fetch_histograms_definition(c, revision)}} : TRUE

PercentileKinds == {"exponential", "linear", "enumerated", "boolean"}

\* the walk that stops only when to_count - freq < 0
RECURSIVE WalkStrict(_, _, _)
WalkStrict(values, i, to_count) ==
    LET freq == values[i + 1]
        left == FSub(to_count, freq)
    IN  IF FLe(left, Num(0)) /\ left # Num(0)
        THEN [percentile_bucket |-> i, to_count |-> to_count]
        ELSE IF i + 1 = Len(values)
        THEN [percentile_bucket |-> i, to_count |-> left]
        ELSE WalkStrict(values, i + 1, left)

\* lines 79-83: the walk over the buckets from position i (0-based) with
\* to_count still to be covered; the position where it ends and the
\* to_count left there
RECURSIVE Walk(_, _, _)
Walk(values, i, to_count) ==
    LET freq == values[i + 1]
    IN  IF FLe(FSub(to_count, freq), Num(0))
        THEN [percentile_bucket |-> i, to_count |-> to_count]
        ELSE IF i + 1 = Len(values)
        THEN [percentile_bucket |-> i, to_count |-> FSub(to_count, freq)]
        ELSE Walk(values, i + 1, FSub(to_count, freq))

\* lines 75-83
PercentileWalk(self, percentile) ==
    LET fraction == FDiv(Num(percentile), Num(Hundred))
        to_count == FMul(fraction, SeriesSum(self.buckets))
    IN  IF Len(self.buckets.values) = 0
        THEN [percentile_bucket |-> 0, to_count |-> to_count]
        ELSE Walk(self.buckets.values, 0, to_count)

\* the interpolation with the offset subtracted from the lower boundary
InterpolateDown(buckets, percentile_bucket, to_count) ==
    FSub(Num(buckets.index[percentile_bucket + 1]),
         FDiv(FMul(Num(buckets.index[percentile_bucket + 2]
                       - buckets.index[percentile_bucket + 1]), to_count),
              buckets.values[percentile_bucket + 1]))

\* lines 88-91: the interpolation inside bucket percentile_bucket
Interpolate(buckets, percentile_bucket, to_count) ==
    LET percentile_frequency == buckets.values[percentile_bucket + 1]
        percentile_lower_boundary == Num(buckets.index[percentile_bucket + 1])
        width == Num(buckets.index[percentile_bucket + 2]
                     - buckets.index[percentile_bucket + 1])
    IN  FAdd(percentile_lower_boundary,
             FDiv(FMul(width, to_count), percentile_frequency))

\* the last bucket answered with its lower boundary
PercentileAtLowerBoundary(self, w) ==
    IF Len(self.buckets.values) = 0
    THEN [exc |-> "IndexError", ret |-> NaN]
    ELSE IF w.percentile_bucket = Len(self.buckets.values) - 1
    THEN [exc |-> "none", ret |-> Num(self.buckets.index[w.percentile_bucket + 1])]
    ELSE [exc |-> "none",
          ret |-> FAdd(Num(self.buckets.index[w.percentile_bucket + 1]),
                       FDiv(FMul(Num(self.buckets.index[w.percentile_bucket + 2]
                                     - self.buckets.index[w.percentile_bucket + 1]),
                                 w.to_count),
                            self.buckets.values[w.percentile_bucket + 1]))]

\* lines 85-91, with the outcome w of the walk
PercentileAt(self, w) ==
    IF w.percentile_bucket = Len(self.buckets.values) - 1
    THEN [exc |-> "none", ret |-> NaN]
    ELSE IF Len(self.buckets.values) = 0
    THEN [exc |-> "IndexError", ret |-> NaN]
    ELSE [exc |-> "none",
          ret |-> Interpolate(self.buckets, w.percentile_bucket, w.to_count)]

\* Histogram.percentile(self, percentile)
Percentile(self, percentile) ==
    IF ~(percentile >= 0 /\ percentile <= Hundred)
    THEN [exc |-> "AssertionError", ret |-> NaN]
    ELSE IF self.kind \notin PercentileKinds
    THEN [exc |-> "AssertionError", ret |-> NaN]
    ELSE CHOOSE out \in
             {PercentileAt(self, w) : w \in {PercentileWalk(self, percentile)}} : TRUE

\* self.buckets[label]: a Series with an integer index is looked up by label
SeriesGet(s, label) ==
    IF Pos(s.index, label) = 0
    THEN [exc |-> "KeyError", ret |-> NaN]
    ELSE [exc |-> "none", ret |-> s.values[Pos(s.index, label)]]

\* get_value that reads a count histogram at label 1 when only_median is set
GetValueCountAtOne(self, only_median) ==
    IF self.kind \in PercentileKinds
    THEN IF only_median
         THEN [exc |-> Percentile(self, MedianPercentile).exc, type |-> "number",
               number |-> Percentile(self, MedianPercentile).ret,
               bool |-> FALSE, series |-> NoSeries]
         ELSE [exc |-> "none", type |-> "Series", number |-> NaN,
               bool |-> FALSE, series |-> self.buckets]
    ELSE IF self.kind = "count"
    THEN [exc |-> SeriesGet(self.buckets, IF only_median THEN 1 ELSE 0).exc,
          type |-> "number",
          number |-> SeriesGet(self.buckets, IF only_median THEN 1 ELSE 0).ret,
          bool |-> FALSE, series |-> NoSeries]
    ELSE IF self.kind = "flag"
    THEN [exc |-> SeriesGet(self.buckets, 1).exc, type |-> "bool", number |-> NaN,
          bool |-> FEq(SeriesGet(self.buckets, 1).ret, Num(1)), series |-> NoSeries]
    ELSE [exc |-> "AssertionError", type |-> "", number |-> NaN,
          bool |-> FALSE, series |-> NoSeries]

\* Histogram.get_value(self, only_median): the exception, and the value
\* returned: a Series (type "Series"), a number (type "number") or a
\* boolean (type "bool")
GetValue(self, only_median) ==
    IF self.kind \in PercentileKinds
    THEN IF only_median
         THEN LET r == Percentile(self, MedianPercentile)
              IN  [exc |-> r.exc, type |-> "number", number |-> r.ret,
                   bool |-> FALSE, series |-> NoSeries]
         ELSE [exc |-> "none", type |-> "Series", number |-> NaN,
               bool |-> FALSE, series |-> self.buckets]
    ELSE IF self.kind = "count"
    THEN LET r == SeriesGet(self.buckets, 0)
         IN  [exc |-> r.exc, type |-> "number", number |-> r.ret,
              bool |-> FALSE, series |-> NoSeries]
    ELSE IF self.kind = "flag"
    THEN LET r == SeriesGet(self.buckets, 1)
         IN  [exc |-> r.exc, type |-> "bool", number |-> NaN,
              bool |-> FEq(r.ret, Num(1)), series |-> NoSeries]
    ELSE [exc |-> "AssertionError", type |-> "", number |-> NaN,
          bool |-> FALSE, series |-> NoSeries]

\* Histogram.__add__(self, other): Histogram(self.name, self.buckets +
\* other.buckets), with the default revision.  The record also gives the two
\* operands as they are after the call.
HistogramAdd(c, broadcast, self, other) ==
    LET r == HistogramInit(c, broadcast, self.name,
                           SeriesInstance(SeriesAdd(self.buckets, other.buckets)),
                           TipRevision)
    IN  [exc |-> r.exc, ret |-> r.self, cache |-> r.cache,
         self |-> self, other |-> other]

(***************************************************************************)
(* The inputs explored.                                                    *)
(***************************************************************************)
Counts == {Num(i) : i \in 0..MaxCount}

\* the bucket count of the schemas above
NBuckets == Len(TipDocument[<<"A">>].ranges)

SeqsOfLen(S, n) == [1..n -> S]

\* the five trailing statistics of a dense submission (sum, log sum, log sum
\* of squares, min, max), two samples
Trailers ==
    {<<Num(0), Num(0), Num(0), Num(0), Num(0)>>,
     <<Num(1), <<69, 100>>, <<12, 25>>, Num(-1), Num(-1)>>}

\* dense value sequences of length NBuckets
ExactValues == SeqsOfLen(Counts, NBuckets)

\* dense value sequences of length NBuckets + 5
TrailedValues == {v \o t : v \in ExactValues, t \in Trailers}

\* dense value sequences of other lengths: 1, NBuckets - 1, NBuckets + 1,
\* and these followed by five more values
OtherValues ==
    LET short == SeqsOfLen(Counts, 1) \cup SeqsOfLen(Counts, NBuckets - 1)
                 \cup SeqsOfLen({Num(1)}, NBuckets + 1)
    IN  short \cup {v \o t : v \in short, t \in Trailers}

DenseValueSeqs == ExactValues \cup TrailedValues \cup OtherValues

\* a Series built from a list without an index has the labels 0 .. len-1
DefaultSeries(values) ==
    [index |-> [i \in DOMAIN values |-> i - 1], values |-> values]

\* the keys of a sparse input, as digit strings: "1", "2", "3", "01"
SparseKeys == {<<1>>, <<2>>, <<3>>, <<0, 1>>}

SparseItems ==
    {items \in UNION {SeqsOfLen(SparseKeys \X Counts, n) : n \in 0..MaxEntries} :
        \A i, j \in DOMAIN items : i # j => items[i][1] # items[j][1]}

Names == {<<"A">>, <<"STARTUP_", "A">>, <<"C">>, <<"F">>, <<"Z">>}

AllInstances ==
    {ListInstance(v) : v \in DenseValueSeqs}
    \cup {SeriesInstance(DefaultSeries(v)) : v \in DenseValueSeqs}
    \cup {DictInstance(items) : items \in SparseItems}

\* the inputs of the constructions whose results are combined
WorkInstances ==
    {ListInstance(v) : v \in ExactValues}
    \cup {ListInstance(<<Num(1), Num(0), Num(1), Num(1), <<69, 100>>, <<12, 25>>,
                         Num(-1), Num(-1)>>),
          DictInstance(<<<<<<3>>, Num(1)>>>>),
          DictInstance(<<<<<<2>>, Num(1)>>, <<<<0, 1>>, Num(1)>>>>),
          ListInstance(<<Num(1), Num(1)>>),
          ListInstance(<<Num(1)>>)}

WorkNames == {<<"A">>, <<"STARTUP_", "A">>, <<"C">>}

(***************************************************************************)
(* State.                                                                  *)
(***************************************************************************)
VARIABLES
    cache,        \* the lru_cache of _fetch_histograms_definition
    broadcast,    \* whether the installed pandas repeats a single value
    pending,      \* the constructor call drawn beforehand, or NoCall
    objs,         \* the objects the caller holds, by variable name
    last          \* the last call and what it returned or raised

vars == <<cache, broadcast, pending, objs, last>>

Vars == {"a", "b"}

NoCall == [name |-> <<>>, instance |-> NoInstance, revision |-> <<>>]

NoLast ==
    [op |-> "none", revision |-> <<>>, self |-> "", percentile |-> 0,
     only_median |-> FALSE, exc |-> "none", type |-> "", number |-> NaN,
     bool |-> FALSE, series |-> NoSeries]

\* the percentile arguments explored
Percentiles == {0, 1, 50, 100, 101}

Init ==
    /\ cache = <<>>
    /\ broadcast \in BOOLEAN
    /\ pending = NoCall
    /\ objs = [v \in Vars |-> NoObject]
    /\ last = NoLast

\* one constructor call is drawn: any name, input and revision
InitNew ==
    /\ cache = <<>>
    /\ broadcast \in BOOLEAN
    /\ pending \in [name : Names, instance : AllInstances, revision : Revisions]
    /\ objs = [v \in Vars |-> NoObject]
    /\ last = NoLast

\* v = Histogram(name, instance, revision)
Construct(v, name, instance, revision) ==
    \E r \in {HistogramInit(cache, broadcast, name, instance, revision)} :
        /\ cache' = r.cache
        /\ objs' = IF r.exc = "none" THEN [objs EXCEPT ![v] = r.self] ELSE objs
        /\ last' = [NoLast EXCEPT !.op = "init", !.revision = revision,
                                  !.exc = r.exc]
        /\ UNCHANGED <<broadcast, pending>>

\* the call drawn beforehand is made
ConstructPending ==
    /\ pending # NoCall
    /\ last.op = "none"
    /\ Construct("a", pending.name, pending.instance, pending.revision)

ConstructWork ==
    \E name \in WorkNames, instance \in WorkInstances, revision \in Revisions :
        Construct("a", name, instance, revision)

WithinTotal(obj) ==
    \A i \in DOMAIN obj.buckets.values :
        IsNaN(obj.buckets.values[i]) \/ FLe(obj.buckets.values[i], Num(MaxTotal))

\* v = x + y
Add(v, x, y) ==
    /\ objs[x] # NoObject
    /\ objs[y] # NoObject
    /\ \E r \in {HistogramAdd(cache, broadcast, objs[x], objs[y])} :
        \E kept \in {[objs EXCEPT ![x] = r.self, ![y] = r.other]} :
           /\ WithinTotal(r.ret)
           /\ cache' = r.cache
           /\ objs' = IF r.exc = "none" THEN [kept EXCEPT ![v] = r.ret] ELSE kept
           /\ last' = [NoLast EXCEPT !.op = "add", !.self = x, !.exc = r.exc]
    /\ UNCHANGED <<broadcast, pending>>

\* a = a + Histogram(name, instance, revision), or with the operands swapped:
\* the constructor call, then __add__ on its result
Accumulate(name, instance, revision, swapped) ==
    /\ objs["a"] # NoObject
    /\ \E t \in {HistogramInit(cache, broadcast, name, instance, revision)} :
           IF t.exc # "none"
           THEN /\ cache' = t.cache
                /\ last' = [NoLast EXCEPT !.op = "init", !.revision = revision,
                                          !.exc = t.exc]
                /\ UNCHANGED objs
           ELSE \E r \in {IF swapped
                          THEN HistogramAdd(t.cache, broadcast, t.self, objs["a"])
                          ELSE HistogramAdd(t.cache, broadcast, objs["a"], t.self)} :
                /\ WithinTotal(r.ret)
                /\ cache' = r.cache
                /\ objs' = [objs EXCEPT !["a"] =
                               IF r.exc = "none" THEN r.ret
                               ELSE IF swapped THEN r.other ELSE r.self]
                /\ last' = [NoLast EXCEPT !.op = "add",
                                          !.self = IF swapped THEN "" ELSE "a",
                                          !.exc = r.exc]
    /\ UNCHANGED <<broadcast, pending>>

AccumulateWork ==
    \E name \in WorkNames, instance \in WorkInstances, revision \in Revisions,
       swapped \in BOOLEAN :
        Accumulate(name, instance, revision, swapped)

\* x.percentile(p)
CallPercentile(x, p) ==
    /\ objs[x] # NoObject
    /\ \E r \in {Percentile(objs[x], p)} :
           last' = [NoLast EXCEPT !.op = "percentile", !.self = x,
                       !.percentile = p, !.exc = r.exc, !.type = "number",
                       !.number = r.ret]
    /\ UNCHANGED <<cache, broadcast, pending, objs>>

\* x.get_value(only_median)
CallGetValue(x, only_median) ==
    /\ objs[x] # NoObject
    /\ \E r \in {GetValue(objs[x], only_median)} :
           last' = [NoLast EXCEPT !.op = "get_value", !.self = x,
                       !.only_median = only_median, !.exc = r.exc,
                       !.type = r.type, !.number = r.number, !.bool = r.bool,
                       !.series = r.series]
    /\ UNCHANGED <<cache, broadcast, pending, objs>>

\* the program that accumulates constructed histograms
Next ==
    \/ ConstructWork
    \/ AccumulateWork
    \/ Add("a", "a", "a")

Spec == Init /\ [][Next]_vars

\* the program that constructs one histogram, doubles it and reads both
NextNew ==
    \/ ConstructPending
    \/ (pending # NoCall /\ Add("b", "a", "a"))
    \/ (pending # NoCall /\ \E x \in Vars, p \in Percentiles : CallPercentile(x, p))
    \/ (pending # NoCall /\ \E x \in Vars, m \in BOOLEAN : CallGetValue(x, m))

SpecNew == InitNew /\ [][NextNew]_vars

(***************************************************************************)
(* Properties.                                                             *)
(***************************************************************************)
\* the schema entry a constructor call resolves to
Known(name, revision) == StripStartup(name) \in DOMAIN FetchUncached(revision)

DefinitionFor(name, revision) == FetchUncached(revision)[StripStartup(name)]

\* the drawn call has been made and has built the object held in a
Built == pending # NoCall /\ objs["a"] # NoObject

\* the drawn call has been made (it returned, or it raised)
Called == pending # NoCall /\ last.op # "none"

Held == {v \in Vars : objs[v] # NoObject}

Counted(obj) == \A i \in DOMAIN obj.buckets.values : ~IsNaN(obj.buckets.values[i])

Mass(obj) == SeriesSum(obj.buckets)

PositiveMass(obj) == Counted(obj) /\ ~FLe(Mass(obj), Num(0))

\* C1: in every reachable state every histogram held, whether constructed
\* from a dense input, from a sparse input or by +, has exactly bucket_count
\* buckets and their keys are its definition's boundaries in the same order.
C1_BucketsFollowDefinition ==
    \A v \in Held :
        /\ Len(objs[v].buckets.values) = Len(objs[v].definition.ranges)
        /\ objs[v].buckets.index = objs[v].definition.ranges

\* a histogram made by + from operands whose labels differ from the
\* boundaries of the definition resolved for the result
C1_Witness ==
    /\ last.op = "add"
    /\ last.exc = "none"
    /\ \E i \in DOMAIN objs["a"].buckets.values : IsNaN(objs["a"].buckets.values[i])
    /\ \E i \in DOMAIN objs["a"].buckets.values : ~IsNaN(objs["a"].buckets.values[i])

\* the first n elements of a dense input, as an input of the same type
FirstN(instance, n) ==
    [instance EXCEPT !.values = SubSeq(instance.values, 1, n),
                     !.index = IF Len(instance.index) >= n
                               THEN SubSeq(instance.index, 1, n)
                               ELSE instance.index]

\* C2: a dense input of length bucket_count + 5 gives the same buckets as its
\* first bucket_count elements alone, and the count at position i is s[i].
C2_TrailingIgnored ==
    (/\ Called
     /\ IsDense(pending.instance)
     /\ Known(pending.name, pending.revision)
     /\ Len(pending.instance.values)
            = Len(DefinitionFor(pending.name, pending.revision).ranges) + TrailingFields)
    => LET n == Len(DefinitionFor(pending.name, pending.revision).ranges)
           alone == HistogramInit(<<>>, broadcast, pending.name,
                                  FirstN(pending.instance, n), pending.revision)
       IN  /\ objs["a"] # NoObject
           /\ alone.exc = "none"
           /\ objs["a"].buckets = alone.self.buckets
           /\ \A i \in 1..n : objs["a"].buckets.values[i] = pending.instance.values[i]

\* the integers the keys of the drawn sparse input cast to
KeyInts == {ParseInt(pending.instance.items[i][1]) : i \in DOMAIN pending.instance.items}

\* the counts the drawn sparse input gives for the keys that cast to k
CountsFor(k) ==
    {pending.instance.items[i][2] :
        i \in {j \in DOMAIN pending.instance.items :
                  ParseInt(pending.instance.items[j][1]) = k}}

\* C3 as claimed: the key cast to integer i is a bucket position; the bucket at
\* position i gets the count given for i, every other bucket gets 0.
C3_KeysArePositions ==
    (Built /\ pending.instance.type = "dict")
    => \A i \in 0..(Len(objs["a"].buckets.values) - 1) :
          IF i \in KeyInts
          THEN objs["a"].buckets.values[i + 1] \in CountsFor(i)
          ELSE objs["a"].buckets.values[i + 1] = Num(0)

\* the count of the last item, in iteration order, whose key casts to k
LastCountFor(k) ==
    LET at == {j \in DOMAIN pending.instance.items :
                  ParseInt(pending.instance.items[j][1]) = k}
    IN  pending.instance.items[CHOOSE j \in at : \A l \in at : l <= j][2]

\* C3 as amended: the key cast to an integer is a boundary value; the bucket
\* of boundary b gets the count given for b (the last one given, when several
\* keys cast to b), every boundary that no key casts to gets 0, and a key
\* that casts to no boundary is dropped.
C3_KeysAreBoundaries ==
    (Built /\ pending.instance.type = "dict")
    => /\ objs["a"].buckets.index = objs["a"].definition.ranges
       /\ \A i \in DOMAIN objs["a"].buckets.index :
             IF objs["a"].buckets.index[i] \in KeyInts
             THEN objs["a"].buckets.values[i] = LastCountFor(objs["a"].buckets.index[i])
             ELSE objs["a"].buckets.values[i] = Num(0)

\* a sparse input whose key "3" lands in the bucket of boundary 3, the third
\* bucket, and whose key "2" matches no boundary
C3_Witness ==
    /\ Built
    /\ pending.instance.type = "dict"
    /\ objs["a"].buckets.index = <<0, 1, 3>>
    /\ \E i \in DOMAIN pending.instance.items :
          pending.instance.items[i] = <<<<3>>, Num(1)>>
    /\ \E i \in DOMAIN pending.instance.items : pending.instance.items[i][1] = <<2>>
    /\ objs["a"].buckets.values = <<Num(0), Num(0), Num(1)>>

Eligible(obj) == obj.kind \in PercentileKinds

P(obj, p) == Percentile(obj, p).ret

\* C4 as claimed: for a percentile-eligible histogram with positive total,
\* percentile(0) <= percentile(50) <= percentile(100).
C4_Monotone ==
    \A v \in Held :
        (Eligible(objs[v]) /\ PositiveMass(objs[v]))
        => /\ FLe(P(objs[v], 0), P(objs[v], MedianPercentile))
           /\ FLe(P(objs[v], MedianPercentile), P(objs[v], Hundred))

\* C4 as amended: the three percentiles are all numbers exactly when the
\* first bucket is non-empty and the last bucket is empty, and then
\* percentile(0) <= percentile(50) <= percentile(100); otherwise one of them
\* is not-a-number.
C4_MonotoneWhenNumbers ==
    \A v \in Held :
        (Eligible(objs[v]) /\ PositiveMass(objs[v]))
        => LET vals == objs[v].buckets.values
               numbers == /\ ~IsNaN(P(objs[v], 0))
                          /\ ~IsNaN(P(objs[v], MedianPercentile))
                          /\ ~IsNaN(P(objs[v], Hundred))
           IN  /\ numbers <=> (vals[1] # Num(0) /\ vals[Len(vals)] = Num(0))
               /\ numbers => /\ FLe(P(objs[v], 0), P(objs[v], MedianPercentile))
                             /\ FLe(P(objs[v], MedianPercentile), P(objs[v], Hundred))

\* percentile(100) has been read from a histogram whose 0th and 50th
\* percentiles lie strictly below it
C4_Witness ==
    /\ last.op = "percentile"
    /\ last.percentile = Hundred
    /\ last.exc = "none"
    /\ ~IsNaN(last.number)
    /\ PositiveMass(objs[last.self])
    /\ ~IsNaN(P(objs[last.self], 0))
    /\ P(objs[last.self], 0) # P(objs[last.self], MedianPercentile)
    /\ P(objs[last.self], MedianPercentile) # last.number

AllMassLast(obj) ==
    LET vals == obj.buckets.values
    IN  /\ Counted(obj)
        /\ ~FLe(vals[Len(vals)], Num(0))
        /\ \A i \in 1..(Len(vals) - 1) : vals[i] = Num(0)

\* C5: percentile returns not-a-number for every p in [0, 100] when all the
\* mass lies in the last bucket, and whenever the walk ends at the last bucket.
C5_LastBucketIsNaN ==
    (/\ last.op = "percentile"
     /\ last.percentile >= 0
     /\ last.percentile <= Hundred
     /\ Eligible(objs[last.self]))
    => LET obj == objs[last.self]
           w == PercentileWalk(obj, last.percentile)
       IN  /\ AllMassLast(obj) => (last.exc = "none" /\ IsNaN(last.number))
           /\ w.percentile_bucket = Len(obj.buckets.values) - 1
                 => (last.exc = "none" /\ IsNaN(last.number))

\* percentile(0) of a histogram with all its mass in the last bucket: the
\* walk ends at the first bucket and the result is not-a-number
C5_Witness ==
    /\ last.op = "percentile"
    /\ last.percentile = 0
    /\ Eligible(objs[last.self])
    /\ AllMassLast(objs[last.self])
    /\ PercentileWalk(objs[last.self], 0).percentile_bucket = 0
    /\ IsNaN(last.number)

\* C6: h + h is a new histogram with h's name and boundaries whose count at
\* every boundary is twice h's count there, and h is left unchanged.
C6_SelfAddDoubles ==
    [][(last'.op = "add" /\ last' # last)
       => /\ last'.exc = "none"
          /\ objs'["a"] = objs["a"]
          /\ objs'["b"].name = objs["a"].name
          /\ objs'["b"].buckets.index = objs["a"].buckets.index
          /\ objs'["b"].buckets.values
                = [i \in DOMAIN objs["a"].buckets.values |->
                      FMul(Num(2), objs["a"].buckets.values[i])]]_vars

\* C7: a dense input whose length is neither bucket_count nor bucket_count + 5
\* makes the construction fail, and no histogram is produced.
C7_WrongLengthFails ==
    (/\ Called
     /\ IsDense(pending.instance)
     /\ Known(pending.name, pending.revision)
     /\ LET n == Len(DefinitionFor(pending.name, pending.revision).ranges)
        IN  Len(pending.instance.values) \notin {n, n + TrailingFields})
    => /\ objs["a"] = NoObject
       /\ last.op = "init" => last.exc # "none"

CacheKeys(c) == {c[i].key : i \in DOMAIN c}

C9_CountValue ==
    /\ \A v \in Held :
          objs[v].kind = "count" => GetValue(objs[v], TRUE) = GetValue(objs[v], FALSE)
    /\ (last.op = "get_value" /\ objs[last.self].kind = "count")
       => LET obj == objs[last.self]
          IN  /\ last.exc = "none"
              /\ last.type = "number"
              /\ last.number
                    = obj.buckets.values[Pos(obj.buckets.index, obj.definition.ranges[1])]

\* get_value(only_median=True) of a count histogram that holds 1 at its first
\* boundary and 0 at its second
C9_Witness ==
    /\ last.op = "get_value"
    /\ last.only_median
    /\ objs[last.self].kind = "count"
    /\ objs[last.self].buckets.values[1] = Num(1)
    /\ objs[last.self].buckets.values[2] = Num(0)
    /\ last.number = Num(1)

\* C10: for non-negative counts with a positive total and 0 < p <= 100, a
\* walk that stops before the last bucket stops at a bucket with a positive
\* count, with 0 < remaining <= count, and the result lies inside the bucket.
C10_ResultInsideBucket ==
    (/\ last.op = "percentile"
     /\ last.percentile > 0
     /\ last.percentile <= Hundred
     /\ Eligible(objs[last.self])
     /\ PositiveMass(objs[last.self])
     /\ PercentileWalk(objs[last.self], last.percentile).percentile_bucket
            # Len(objs[last.self].buckets.values) - 1)
    => LET obj == objs[last.self]
           w == PercentileWalk(obj, last.percentile)
           i == w.percentile_bucket + 1
       IN  /\ last.exc = "none"
           /\ ~FLe(obj.buckets.values[i], Num(0))
           /\ ~FLe(w.to_count, Num(0))
           /\ FLe(w.to_count, obj.buckets.values[i])
           /\ FLe(Num(obj.buckets.index[i]), last.number)
           /\ FLe(last.number, Num(obj.buckets.index[i + 1]))

\* percentile(50) has stopped at the second bucket and returned a number
\* strictly inside it
C10_Witness ==
    /\ last.op = "percentile"
    /\ last.percentile = MedianPercentile
    /\ Eligible(objs[last.self])
    /\ PositiveMass(objs[last.self])
    /\ PercentileWalk(objs[last.self], MedianPercentile).percentile_bucket = 1
    /\ ~FLe(last.number, Num(objs[last.self].buckets.index[2]))
    /\ ~FLe(Num(objs[last.self].buckets.index[3]), last.number)
====
